---- MODULE Spec2Model ----
(***************************************************************************)
(* Model of the deepfake-detection backend (src/app.py):                   *)
(*   - predict_on_video: frame sampling loop, box clamping / crop          *)
(*     extraction, score collection, aggregation and result formatting;    *)
(*   - predict: the POST /predict handler (validation, upload save, call   *)
(*     of predict_on_video, cleanup, response).                            *)
(*                                                                         *)
(* Numbers.  A classifier score in [0,1] is an integer number of           *)
(* 1/ScoreScale units.  A confidence is an integer number of hundredths of *)
(* a percent, i.e. exactly what the "%.2f" rendering prints.  A raw box    *)
(* coordinate (a float of the face detector) is an integer number of half  *)
(* pixels, so that int() is a real truncation.                             *)
(***************************************************************************)
EXTENDS Integers, Sequences, FiniteSets, TLC

\* ------------------------------------------------------------------ bounds
MaxFrames == 2      \* largest frame count a video reports / largest cap tried
MaxBoxes == 2       \* most boxes the face detector returns for one frame
MaxScores == 3      \* most scores collected in one invocation
FrameW == 4         \* frame width in pixels  (frame.shape[1])
FrameH == 3         \* frame height in pixels (frame.shape[0])

\* ------------------------------------------------------- program constants
DefaultMaxFrames == 50

\* ------------------------------------------------------------ score samples
\* the classifier outputs tried: 0.0, 0.5 and 1.0, in units of 1/ScoreScale
Scores == {0, 1, 2}
ScoreScale == Cardinality(Scores) - 1

\* --------------------------------------------------------------- utilities
Min(a, b) == IF a < b THEN a ELSE b
Max(a, b) == IF a > b THEN a ELSE b

RECURSIVE SumSeq(_)
SumSeq(s) == IF s = <<>> THEN 0 ELSE Head(s) + SumSeq(Tail(s))

\* ------------------------------------------------------------ allowed_file
Dot == "."

ALLOWED_EXTENSIONS ==
    { <<"m","p","4">>, <<"a","v","i">>, <<"m","o","v">>,
      <<"m","k","v">>, <<"w","e","b","m">> }

\* str.lower() on one character of the alphabet used by the sample names
LowerChar(c) ==
    CASE c = "A" -> "a" [] c = "M" -> "m" [] c = "P" -> "p"
      [] c = "T" -> "t" [] c = "X" -> "x"
      [] OTHER -> c

Lower(s) == [i \in 1..Len(s) |-> LowerChar(s[i])]

HasDot(s) == \E i \in 1..Len(s) : s[i] = Dot

\* filename.rsplit('.', 1)[1]: what follows the LAST dot (s contains a dot)
RSplitExt(s) ==
    LET last == CHOOSE i \in 1..Len(s) :
                   s[i] = Dot /\ \A j \in (i+1)..Len(s) : s[j] # Dot
    IN  SubSeq(s, last + 1, Len(s))

\* allowed_file without the extension test
allowed_file_lax(filename) == HasDot(filename)

allowed_file(filename) ==
    HasDot(filename) /\ Lower(RSplitExt(filename)) \in ALLOWED_EXTENSIONS

\* ------------------------------------------------- clamping and numpy crop
\* int(x) of a float given in half pixels: truncation toward zero
PyInt(c) == IF c >= 0 THEN c \div 2 ELSE -((-c) \div 2)

IntBox(box) == [i \in 1..4 |-> PyInt(box[i])]

\* lines 133-134 on an integer box <<x1, y1, x2, y2>>
ClampBox(b, w, h) ==
    << Max(0, b[1]), Max(0, b[2]), Min(w, b[3]), Min(h, b[4]) >>

\* one bound of a Python slice over an axis of length n: a negative bound
\* counts from the end, then the bound is clipped to 0..n
SliceBound(i, n) == IF i < 0 THEN Max(i + n, 0) ELSE Min(i, n)

\* len(range(n)[start:stop])
SliceLen(start, stop, n) ==
    Max(0, SliceBound(stop, n) - SliceBound(start, n))

\* frame[y1:y2, x1:x2] for an h x w frame: <<rows, cols>> of the crop
CropShape(c, w, h) == << SliceLen(c[2], c[4], h), SliceLen(c[1], c[3], w) >>

\* face.size of a crop with 3 channels
FaceSize(shape) == shape[1] * shape[2] * 3

\* ------------------------------------------------- aggregation, formatting
\* round(num/den) to the nearest integer, ties to even (num >= 0, den > 0)
RoundHalfEven(num, den) ==
    LET q == num \div den
        r == num % den
    IN  IF 2 * r < den THEN q
        ELSE IF 2 * r > den THEN q + 1
        ELSE IF q % 2 = 0 THEN q ELSE q + 1

NoResult == [kind |-> "none", label |-> "-", conf |-> 0]
NoEvidence == [kind |-> "NoEvidence", label |-> "-", conf |-> 0]

\* Aggregate with `>=` for `>` at line 160
Aggregate_tiefake(preds) ==
    IF preds = <<>> THEN NoEvidence
    ELSE LET S == SumSeq(preds)
             den == Len(preds) * ScoreScale
         IN  IF 2 * S >= den
             THEN [kind |-> "Verdict", label |-> "FAKE",
                   conf |-> RoundHalfEven(10000 * S, den)]
             ELSE [kind |-> "Verdict", label |-> "REAL",
                   conf |-> RoundHalfEven(10000 * (den - S), den)]

\* lines 156-163 alone
Aggregate_strict(preds) ==
    LET S == SumSeq(preds)
        den == Len(preds) * ScoreScale
    IN  IF 2 * S > den
        THEN [kind |-> "Verdict", label |-> "FAKE",
              conf |-> RoundHalfEven(10000 * S, den)]
        ELSE [kind |-> "Verdict", label |-> "REAL",
              conf |-> RoundHalfEven(10000 * (den - S), den)]

\* np.mean([]) is nan, nan > 0.5 is False, and "%.2f" prints "nan"
NanVerdict == [kind |-> "Verdict", label |-> "REAL", conf |-> -1]

\* Aggregate without the test of line 153
Aggregate_nocheck(preds) ==
    IF preds = <<>> THEN NanVerdict ELSE Aggregate_strict(preds)

\* Aggregate with `if not sum(predictions)` for the test of line 153
Aggregate_sumzero(preds) ==
    IF SumSeq(preds) = 0 THEN NoEvidence ELSE Aggregate_strict(preds)

\* lines 153-163: the string returned for a list of collected scores.
\* avg_score = S / (n * ScoreScale); confidence = avg_score * 100;
\* "%.2f" prints hundredths of a percent: 10000 * S / (n * ScoreScale).
Aggregate(preds) ==
    IF preds = <<>> THEN NoEvidence
    ELSE LET S == SumSeq(preds)
             den == Len(preds) * ScoreScale
         IN  IF 2 * S > den
             THEN [kind |-> "Verdict", label |-> "FAKE",
                   conf |-> RoundHalfEven(10000 * S, den)]
             ELSE [kind |-> "Verdict", label |-> "REAL",
                   conf |-> RoundHalfEven(10000 * (den - S), den)]

\* ------------------------------------------------------------- input sets
\* raw x intervals <<x1, x2>> in half pixels
XIntervals ==
    { << -6, -2 >>,                           \* left of the frame
      << -2 * FrameW - 4, -2 * FrameW >>,     \* far left of the frame
      << -3, 5 >>,                            \* overlaps the left edge
      << 2 * FrameW + 2, 2 * FrameW + 6 >>,   \* right of the frame
      << 6, 2 >> }                            \* inverted

\* the boxes <<x1, y1, x2, y2>> the face detector returns: every x interval
\* at full height, and the x interval that overlaps the left edge, above
\* the frame
Boxes ==
    { << x[1], 0, x[2], 2 * FrameH >> : x \in XIntervals } \cup
    { << -3, -4, 5, -2 >> }

\* Exception classes raised inside the try block of lines 123-146:
\* "FaceDetectionError" (mtcnn.detect), "ClassificationError" (transform,
\* model), "Unexpected" (any other class derived from Exception) and
\* "BaseException" (one that is not: KeyboardInterrupt, SystemExit).
\* `except Exception` (line 147) catches every class derived from Exception,
\* and no other BaseException (KeyboardInterrupt, SystemExit, GeneratorExit)
IsException(kind) == kind # "BaseException"

\* the failures the frame loop is meant to survive
Recoverable == { "FaceDetectionError", "ClassificationError" }

\* the loop body without its try/except
CaughtByHandler_none(kind) == FALSE

CaughtByHandler(kind) == IsException(kind)

Filenames ==
    { <<>>,
      <<"a", ".", "M", "p", "4">>,
      <<"t", ".", "t", "x", "t">>,
      <<"m", "p", "4">>,
      <<"a", ".", "m", "p", "4", ".", "t", "x", "t">>,
      <<"x", ".">> }

NoReq == [hasFile |-> FALSE, filename |-> <<"-">>]

Requests ==
    { [hasFile |-> FALSE, filename |-> <<>>] } \cup
    { [hasFile |-> TRUE, filename |-> f] : f \in Filenames }

\* ------------------------------------------------------------------ state
VARIABLES
    hpc,                \* position of the /predict handler ("direct": no handler)
    req,                \* the request: 'file' part present, its filename
    status,             \* HTTP status of the response (0: none yet)
    body,               \* JSON body of the response: its key and its message
    uploads,            \* TRUE iff the file at file_path exists in UPLOAD_FOLDER
    saves,              \* number of file.save(file_path) calls
    pc,                 \* position of predict_on_video
    max_frames,         \* argument max_frames
    frame_count,        \* int(cap.get(CAP_PROP_FRAME_COUNT))
    frames_to_process,  \* min(max_frames, frame_count)
    idx,                \* frames read so far (line 120)
    predictions,        \* the list of scores (line 111)
    nboxes,             \* boxes of the current frame still to be iterated
    cur,                \* the box the loop body handled last, what became of it,
                        \* and how many boxes of the frame came after it in the list
    opened,             \* what cap.isOpened() answered: "yes", "no" ("unset": not asked)
    released,           \* number of cap.release() calls
    reads,              \* number of cap.read() calls
    detects,            \* number of mtcnn.detect(frame) calls
    classified,         \* a crop was handed to transform/model
    eos,                \* cap.read() returned ret = False
    lastErr,            \* class of the exception the last step raised ("none": none)
    unexpected,         \* an exception other than the two recoverable ones was raised
    recov,              \* "failed": a recoverable failure was caught;
                        \* "scoredAfter": and a later frame produced a score
    exc,                \* the exception predict_on_video raised ("none": none)
    result              \* the value predict_on_video returned

vars == << hpc, req, status, body, uploads, saves, pc, max_frames, frame_count,
           frames_to_process, idx, predictions, nboxes, cur, opened, released,
           reads, detects, classified, eos, lastErr, unexpected, recov, exc, result >>

httpVars == << hpc, req, status, body, uploads, saves >>

NoCur == [box |-> <<0, 0, 0, 0>>, clamped |-> <<0, 0, 0, 0>>,
          shape |-> <<0, 0>>, outcome |-> "none", left |-> 0]

NoBody == [key |-> "-", text |-> "-"]

\* state of predict_on_video before it is called
AnalysisIdle ==
    /\ pc = "idle"
    /\ max_frames = 0 /\ frame_count = 0 /\ frames_to_process = 0
    /\ idx = 0 /\ predictions = <<>> /\ nboxes = 0 /\ cur = NoCur
    /\ opened = "unset" /\ released = 0 /\ reads = 0 /\ detects = 0
    /\ classified = FALSE /\ eos = FALSE /\ lastErr = "none"
    /\ unexpected = FALSE /\ recov = "none"
    /\ exc = "none" /\ result = NoResult

InitCommon ==
    /\ status = 0 /\ body = NoBody /\ uploads = FALSE /\ saves = 0
    /\ frame_count = 0 /\ frames_to_process = 0
    /\ idx = 0 /\ predictions = <<>> /\ nboxes = 0 /\ cur = NoCur
    /\ opened = "unset" /\ released = 0 /\ reads = 0 /\ detects = 0
    /\ classified = FALSE /\ eos = FALSE /\ lastErr = "none"
    /\ unexpected = FALSE /\ recov = "none"
    /\ exc = "none" /\ result = NoResult

\* predict_on_video is called directly, with a cap the caller chooses
InitCall ==
    /\ InitCommon
    /\ hpc = "direct" /\ req = NoReq
    /\ pc = "open" /\ max_frames \in 0..MaxFrames

\* a POST /predict request arrives
InitRequest ==
    /\ InitCommon
    /\ hpc = "recv" /\ req \in Requests
    /\ pc = "idle" /\ max_frames = 0

Init == InitCall \/ InitRequest

\* ------------------------------------------------------- predict_on_video
\* an exception of class kind is raised inside the try block of lines 123-146:
\* the handler of lines 147-149 takes it, or it leaves predict_on_video
Raise(kind) ==
    /\ lastErr' = kind
    /\ unexpected' = (unexpected \/ kind \notin Recoverable)
    /\ nboxes' = 0
    /\ IF CaughtByHandler(kind)
       THEN /\ pc' = "loop"
            /\ exc' = exc
            /\ recov' = IF kind \in Recoverable /\ recov = "none"
                        THEN "failed" ELSE recov
       ELSE /\ pc' = "raised"
            /\ exc' = kind
            /\ recov' = recov

\* line 109 without the cap
FramesToProcess_nocap(mf, fc) == fc

\* line 109
FramesToProcess(mf, fc) == Min(mf, fc)

\* lines 108-114 once the capture is there: frame count, cap, empty score list
StartLoop ==
    \E fc \in 0..MaxFrames :
       /\ frame_count' = fc
       /\ frames_to_process' = FramesToProcess(max_frames, fc)
       /\ predictions' = <<>> /\ idx' = 0
       /\ pc' = "loop"
       /\ exc' = exc

\* lines 104-114 without the isOpened() test
OpenVideo_nocheck ==
    /\ pc = "open"
    /\ opened' \in {"yes", "no"}
    /\ StartLoop
    /\ UNCHANGED << max_frames, nboxes, cur, released, reads, detects,
                    classified, eos, lastErr, unexpected, recov, result >>
    /\ UNCHANGED httpVars

\* lines 104-114
OpenVideo ==
    /\ pc = "open"
    /\ \/ \* cap.isOpened() is false: raise
          /\ opened' = "no"
          /\ pc' = "raised"
          /\ exc' = "CannotOpenVideo"
          /\ UNCHANGED << frame_count, frames_to_process, predictions, idx >>
       \/ /\ opened' = "yes"
          /\ StartLoop
    /\ UNCHANGED << max_frames, nboxes, cur, released, reads, detects,
                    classified, eos, lastErr, unexpected, recov, result >>
    /\ UNCHANGED httpVars

\* lines 116-126 and 147-149: one pass of the while loop up to face detection
ReadFrame ==
    /\ pc = "loop"
    /\ idx < frames_to_process
    /\ reads' = reads + 1
    /\ cur' = NoCur
    /\ \/ \* ret is False: break
          /\ eos' = TRUE
          /\ pc' = "after"
          /\ lastErr' = "none"
          /\ UNCHANGED << idx, detects, nboxes, unexpected, recov, exc >>
       \/ /\ idx' = idx + 1
          /\ detects' = detects + 1
          /\ eos' = eos
          /\ \/ \* boxes is None
                /\ pc' = "loop"
                /\ lastErr' = "none"
                /\ UNCHANGED << nboxes, unexpected, recov, exc >>
             \/ \E n \in 1..MaxBoxes :
                   /\ nboxes' = n
                   /\ pc' = "boxes"
                   /\ lastErr' = "none"
                   /\ UNCHANGED << unexpected, recov, exc >>
             \/ \E kind \in {"FaceDetectionError", "Unexpected", "BaseException"} :
                   Raise(kind)
    /\ UNCHANGED << max_frames, frame_count, frames_to_process, predictions,
                    opened, released, classified, result >>
    /\ UNCHANGED httpVars

\* what the for loop does once a box is done with
NextBox ==
    /\ nboxes' = nboxes - 1
    /\ pc' = IF nboxes = 1 THEN "loop" ELSE "boxes"
    /\ lastErr' = "none"
    /\ UNCHANGED << unexpected, exc >>

\* lines 128-149: the loop body for one box of the current frame.  The
\* boxes of the list mtcnn.detect returned are drawn one by one as the loop
\* reaches them; nboxes counts those still to come.  A score is appended
\* only while the list is shorter than MaxScores.  The try of line 123
\* encloses the whole for loop of line 128: an exception the handler of
\* line 147 catches ends the for loop, and `continue` goes to the next frame.
ProcessBox ==
    /\ pc = "boxes"
    /\ \E box \in Boxes :
         LET c == ClampBox(IntBox(box), FrameW, FrameH)
             shape == CropShape(c, FrameW, FrameH)
             seen(o) == [box |-> box, clamped |-> c, shape |-> shape, outcome |-> o,
                         left |-> nboxes - 1]
         IN  IF FaceSize(shape) = 0
             THEN /\ cur' = seen("discarded")
                  /\ NextBox
                  /\ UNCHANGED << predictions, classified, recov >>
             ELSE /\ classified' = TRUE
                  /\ \/ \E pred \in Scores :
                          /\ Len(predictions) < MaxScores
                          /\ predictions' = Append(predictions, pred)
                          /\ cur' = seen("scored")
                          /\ recov' = IF recov = "failed" THEN "scoredAfter" ELSE recov
                          /\ NextBox
                     \/ \E kind \in {"ClassificationError", "Unexpected", "BaseException"} :
                          /\ cur' = seen("failed")
                          /\ Raise(kind)
                          /\ UNCHANGED predictions
    /\ UNCHANGED << max_frames, frame_count, frames_to_process, idx, opened,
                    released, reads, detects, eos, result >>
    /\ UNCHANGED httpVars

\* lines 151-163: the loop is over (cap reached or break)
Finish ==
    /\ \/ pc = "after"
       \/ pc = "loop" /\ idx >= frames_to_process
    /\ released' = released + 1
    /\ result' = Aggregate(predictions)
    /\ pc' = "returned"
    /\ cur' = NoCur
    /\ lastErr' = "none"
    /\ UNCHANGED << max_frames, frame_count, frames_to_process, idx,
                    predictions, nboxes, opened, reads, detects, classified,
                    eos, unexpected, recov, exc >>
    /\ UNCHANGED httpVars

\* ---------------------------------------------------------- POST /predict
analysisVars == << pc, max_frames, frame_count, frames_to_process, idx,
                   predictions, nboxes, cur, opened, released, reads, detects,
                   classified, eos, lastErr, unexpected, recov, exc, result >>

Respond(code, key, text) ==
    /\ status' = code
    /\ body' = [key |-> key, text |-> text]

\* lines 177-192: the three checks made before anything is written
Validate ==
    /\ hpc = "recv"
    /\ IF ~req.hasFile
       THEN Respond(400, "error", "No file part in the request.") /\ hpc' = "done"
       ELSE IF req.filename = <<>>
       THEN Respond(400, "error", "No file selected for upload.") /\ hpc' = "done"
       ELSE IF ~allowed_file(req.filename)
       THEN Respond(400, "error", "Invalid file type") /\ hpc' = "done"
       ELSE hpc' = "save" /\ UNCHANGED << status, body >>
    /\ UNCHANGED << req, uploads, saves >>
    /\ UNCHANGED analysisVars

\* lines 194-204 and 228-232: file.save(file_path), then the call of
\* predict_on_video(file_path) with the default cap
SaveUpload ==
    /\ hpc = "save"
    /\ saves' = saves + 1
    /\ \/ \* the file is written; predict_on_video is entered
          /\ uploads' = TRUE
          /\ hpc' = "analyze"
          /\ pc' = "open"
          /\ max_frames' = DefaultMaxFrames
          /\ UNCHANGED << status, body >>
       \/ \* file.save raises: the outer handler answers; what was written stays
          /\ uploads' \in BOOLEAN
          /\ Respond(500, "error", "Server error")
          /\ hpc' = "done"
          /\ UNCHANGED << pc, max_frames >>
    /\ UNCHANGED << req, frame_count, frames_to_process, idx, predictions,
                    nboxes, cur, opened, released, reads, detects, classified,
                    eos, lastErr, unexpected, recov, exc, result >>

\* lines 204-215: predict_on_video has returned or raised
AfterAnalysis ==
    /\ hpc = "analyze"
    /\ pc \in {"returned", "raised"}
    /\ IF pc = "returned"
       THEN Respond(200, "prediction_result", "result")
       ELSE IF exc = "CannotOpenVideo" \/ IsException(exc)
       THEN Respond(500, "error", "Model inference failed")
       ELSE UNCHANGED << status, body >>
    /\ hpc' = "finally"
    /\ UNCHANGED << req, uploads, saves >>
    /\ UNCHANGED analysisVars

\* lines 217-226: the finally block, then the handler returns its response
\* (or the exception no handler caught leaves predict)
Cleanup ==
    /\ hpc = "finally"
    /\ \/ \* os.remove succeeds, or the file is not there
          uploads' = FALSE
       \/ \* os.remove raises OSError: a warning is printed
          uploads /\ uploads' = uploads
    /\ hpc' = IF status = 0 THEN "aborted" ELSE "done"
    /\ UNCHANGED << req, status, body, saves >>
    /\ UNCHANGED analysisVars

\* ---------------------------------------------------------- specification
Next ==
    \/ OpenVideo
    \/ ReadFrame
    \/ ProcessBox
    \/ Finish
    \/ Validate
    \/ SaveUpload
    \/ AfterAnalysis
    \/ Cleanup

Spec == Init /\ [][Next]_vars

\* predict_on_video alone, called directly
CallNext ==
    \/ OpenVideo
    \/ ReadFrame
    \/ ProcessBox
    \/ Finish

CallSpec == InitCall /\ [][CallNext]_vars

\* every call predict_on_video makes returns, so a step of it that can be
\* taken is taken
FairCallSpec == CallSpec /\ WF_vars(CallNext)

\* ================================================================= claims
Terminal == {"returned", "raised"}

Abs(x) == IF x < 0 THEN -x ELSE x

\* c hundredths of a percent is num/den hundredths rounded to the nearest
Rounds(c, num, den) == 2 * Abs(c * den - num) <= den

\* C1: when predict_on_video returns with a non-empty score list of mean m
\* (= S/den), the result is FAKE with confidence m*100 if m > 0.5, and REAL
\* with confidence (1-m)*100 if m <= 0.5, the tie m = 0.5 included; the
\* confidence is given to two decimals.
C1_VerdictFromMean ==
    (pc = "returned" /\ predictions # <<>>) =>
        LET S == SumSeq(predictions)
            den == Len(predictions) * ScoreScale
        IN  /\ result.kind = "Verdict"
            /\ (2 * S > den) =>
                  /\ result.label = "FAKE"
                  /\ Rounds(result.conf, 10000 * S, den)
            /\ (2 * S <= den) =>
                  /\ result.label = "REAL"
                  /\ Rounds(result.conf, 10000 * (den - S), den)

\* the tie: scores of mean exactly 0.5 were collected and REAL 50.00 returned
C1_Witness ==
    /\ pc = "returned"
    /\ predictions # <<>>
    /\ 2 * SumSeq(predictions) = Len(predictions) * ScoreScale
    /\ result = [kind |-> "Verdict", label |-> "REAL", conf |-> 5000]

\* C2: an invocation that returns, returns the NoEvidence sentinel if and
\* only if no score was appended; with at least one score appended the
\* result is a FAKE or REAL verdict; NoEvidence is never the result of
\* anything but a return with an empty score list.
C2_NoEvidenceIffNoScore ==
    /\ pc = "returned" =>
          /\ (result = NoEvidence) <=> (Len(predictions) = 0)
          /\ (Len(predictions) > 0) =>
                (result.kind = "Verdict" /\ result.label \in {"FAKE", "REAL"})
    /\ result = NoEvidence => (pc = "returned" /\ predictions = <<>>)

\* frames were read, faces found and crops classified, every classification
\* failed, and NoEvidence was returned
C2_Witness ==
    /\ pc = "returned"
    /\ result = NoEvidence
    /\ idx > 0 /\ classified /\ recov = "failed"

\* C3 as stated: a completed sampling loop has read exactly
\* min(maxFrames, frameCount) frames and handed each to face localization.
C3_ExactlyMinFrames ==
    pc = "returned" =>
        /\ idx = Min(max_frames, frame_count)
        /\ detects = idx

\* C3 amended: a completed sampling loop has read at most
\* min(maxFrames, frameCount) frames, exactly that many unless cap.read()
\* reported the end of the stream earlier, and every frame read was handed to
\* face localization.
C3_MinFramesUnlessEndOfStream ==
    pc = "returned" =>
        /\ detects = idx
        /\ idx <= Min(max_frames, frame_count)
        /\ ~eos => idx = Min(max_frames, frame_count)
        /\ reads = idx + (IF eos THEN 1 ELSE 0)

\* the cap binds: the video reports more frames than maxFrames and exactly
\* maxFrames of them were read
C3_Witness ==
    /\ pc = "returned"
    /\ ~eos
    /\ 0 < max_frames /\ max_frames < frame_count
    /\ idx = max_frames /\ detects = max_frames

\* C4: the box the loop body handled last was clamped to
\* max(0,x1), max(0,y1), min(w,x2), min(h,y2), and if the clamped box has
\* x2 <= x1 or y2 <= y1 it was discarded: no crop classified, no score.
C4_DegenerateBoxDiscarded ==
    cur.outcome # "none" =>
        LET b == IntBox(cur.box)
            c == cur.clamped
        IN  /\ c = << Max(0, b[1]), Max(0, b[2]), Min(FrameW, b[3]), Min(FrameH, b[4]) >>
            /\ (c[3] <= c[1] \/ c[4] <= c[2]) => cur.outcome = "discarded"

\* C5: when the invocation is over, by return or by exception, the capture
\* has been released exactly once.
C5_ReleasedOnEveryExit ==
    pc \in Terminal => released = 1

\* C6: right after face localization or classification failed on a frame
\* the invocation is in its loop, nothing raised and nothing returned, and
\* the next frame can be read if the cap allows one; a score produced on a
\* later frame is in the score list, and the verdict returned is the one of
\* the whole list.
C6_FailureDoesNotAbort ==
    /\ lastErr \in Recoverable =>
          /\ pc = "loop" /\ exc = "none" /\ result = NoResult
          /\ idx < frames_to_process => ENABLED ReadFrame
    /\ recov = "scoredAfter" =>
          /\ predictions # <<>>
          /\ pc = "returned" =>
                (result.kind = "Verdict" /\ result = Aggregate(predictions))

\* a recoverable failure was caught, a later frame produced a score, and the
\* invocation returned a verdict
C6_Witness ==
    /\ pc = "returned"
    /\ recov = "scoredAfter"
    /\ result.kind = "Verdict"

\* C7: once a failure other than FaceDetectionError and ClassificationError
\* has occurred during frame processing, the invocation has raised and has
\* no result.
C7_UnexpectedPropagates ==
    unexpected => (pc = "raised" /\ exc # "none" /\ result = NoResult)

\* C8: if the video cannot be opened the invocation has raised
\* CannotOpenVideo: no frame read, no localizer or classifier call, no
\* score, no result, no response but the error.
C8_OpenFailureIsImmediate ==
    opened = "no" =>
        /\ pc = "raised" /\ exc = "CannotOpenVideo"
        /\ reads = 0 /\ detects = 0 /\ ~classified
        /\ idx = 0 /\ predictions = <<>>
        /\ result = NoResult
        /\ status \in {0, 500}

\* the open failed inside a request, which was answered with the error
C8_Witness ==
    /\ opened = "no"
    /\ exc = "CannotOpenVideo"
    /\ hpc = "done" /\ status = 500 /\ body.key = "error"

OpenError == pc = "raised" /\ exc = "CannotOpenVideo" /\ result = NoResult
ReturnedNoEvidence == pc = "returned" /\ exc = "none" /\ result = NoEvidence
ReturnedVerdict ==
    /\ pc = "returned" /\ exc = "none"
    /\ result.kind = "Verdict"
    /\ result.label \in {"FAKE", "REAL"}
    /\ result.conf \in 5000..10000
Uncaught == pc = "raised" /\ IsException(exc) = FALSE /\ result = NoResult

\* C9 as stated (its outcome part): a finished invocation shows the open
\* error, NoEvidence or a verdict.
C9_ThreeOutcomes ==
    pc \in Terminal => (OpenError \/ ReturnedNoEvidence \/ ReturnedVerdict)

\* C9 amended: every invocation finishes, and a finished invocation shows
\* exactly one of: the open error, NoEvidence, a verdict with its
\* confidence, an exception the handler of the frame loop does not catch.
C9_TerminatesWithFourOutcomes ==
    /\ (pc = "open") ~> (pc \in Terminal)
    /\ [](pc \in Terminal =>
            Cardinality({ i \in 1..4 :
                << OpenError, ReturnedNoEvidence, ReturnedVerdict, Uncaught >>[i] }) = 1)

\* every frame the cap allows was read and a verdict returned
C9_Witness ==
    /\ ReturnedVerdict
    /\ idx > 0 /\ idx = frames_to_process

\* the requests C10 is about, by name
NoFilePart == ~req.hasFile /\ req # NoReq
EmptyFilename == req.hasFile /\ req.filename = <<>>
BadExtension ==
    /\ req.hasFile
    /\ req.filename \in { <<"t", ".", "t", "x", "t">>,
                          <<"m", "p", "4">>,
                          <<"a", ".", "m", "p", "4", ".", "t", "x", "t">>,
                          <<"x", ".">> }

\* C10: a request with no file part, an empty filename or a filename whose
\* extension is not allowed is, once past validation, answered with 400 and
\* an 'error' body ('Invalid file type' for the extension); nothing was
\* saved and predict_on_video was not entered.
C10_InvalidRequestRejected ==
    ((NoFilePart \/ EmptyFilename \/ BadExtension) /\ hpc # "recv") =>
        /\ hpc = "done"
        /\ status = 400
        /\ body.key = "error"
        /\ BadExtension => body.text = "Invalid file type"
        /\ saves = 0 /\ ~uploads
        /\ AnalysisIdle

\* test_file.txt was rejected
C10_Witness ==
    /\ hpc = "done"
    /\ req = [hasFile |-> TRUE, filename |-> <<"t", ".", "t", "x", "t">>]
    /\ status = 400
    /\ body = [key |-> "error", text |-> "Invalid file type"]

\* C11: right after the classification of one crop of a frame failed, the
\* invocation has not raised and the boxes that come after the failing crop
\* in the localizer's list are still to be iterated: the for loop goes on
\* with the next box of the same frame.
C11_OnlyFailingCropSkipped ==
    (cur.outcome = "failed" /\ lastErr = "ClassificationError") =>
        /\ exc = "none" /\ pc \in {"loop", "boxes"}
        /\ nboxes = cur.left
        /\ cur.left > 0 => pc = "boxes"

\* the request passed the three checks of validation: file.save was called
PassedValidation == saves > 0

\* the handler has returned a response, 200 or 500
Responded == hpc = "done" /\ status \in {200, 500}

\* C12: once the handler has returned its response (200 or 500) to a request
\* that passed validation, the file saved for the request is not in the
\* upload folder, whatever became of the save, of the analysis and of the
\* deletion.
C12_UploadGoneAfterResponse ==
    (PassedValidation /\ Responded) => ~uploads

====
